---- MODULE Spec2Model ----
(***************************************************************************)
(* Model of src/economy_app.py: the two cached World Bank fetchers         *)
(* (get_country_list, fetch_data), the rule based generate_interpretation  *)
(* and the top-to-bottom script that wires them to the page.               *)
(*                                                                         *)
(* Numbers.  A cell of an indicator column is NaN or a number; it is       *)
(* written <<>> (NaN) or <<n>>.  GDP cells are whole dollars.  Inflation   *)
(* cells and the computed growth are in hundredths of a percent, the       *)
(* resolution of the ":.2f" format the code prints them with, so 12.5%     *)
(* is <<1250>> and the thresholds 10, 5, 3, 1 of the code are 1000, 500,   *)
(* 300, 100.                                                               *)
(***************************************************************************)
EXTENDS Integers, Sequences, FiniteSets, TLC

VARIABLES
    pc,            \* position of the script run (lines 113-213)
    countryCache,  \* st.cache_data store of get_country_list: args -> value
    dataCache,     \* st.cache_data store of fetch_data: args -> value
    countries_df,  \* line 123
    selected,      \* selected_country_names, line 128
    year_range,    \* line 139
    df,            \* line 144; also the table handed to generate_interpretation
    page,          \* what the run has put on the page
    listCall,      \* record of the last get_country_list() call
    fetchCall,     \* record of the last fetch_data(...) call
    interpCall,    \* record of the last generate_interpretation(...) call
    failedKeys,    \* history: keys for which fetch_data went through its except branch
    firstReturn    \* history: (function, args) -> the first value a call returned

vars == <<pc, countryCache, dataCache, countries_df, selected, year_range, df,
          page, listCall, fetchCall, interpCall, failedKeys, firstReturn>>

----------------------------------------------------------------------------
(* Bounds of the model *)

\* rows of a table handed to generate_interpretation or delivered to fetch_data
MaxRows == 2

\* rows wb.download delivers to a run of the script
MaxApiRows == 1

\* countries picked in the multiselect
MaxSelected == 2

----------------------------------------------------------------------------
(* Cells, columns, rows *)

NaN == <<>>

Num(n) == <<n>>

isna(x) == x = NaN

GDP_CODE == "NY.GDP.MKTP.CD"

INFL_CODE == "FP.CPI.TOTL.ZG"

GDP_COL == "GDP (Current US$)"

INFL_COL == "Inflation (Annual %)"

INDICATORS == (GDP_CODE :> GDP_COL) @@ (INFL_CODE :> INFL_COL)

Metrics == {GDP_COL, INFL_COL}

\* a row of the cleaned frame: columns country, year and the two labels
Row(c, y, g, i) ==
    [country |-> c, year |-> y] @@ (GDP_COL :> g) @@ (INFL_COL :> i)

\* Python orders the country names as strings
CountryRank == ("Albania" :> 1) @@ ("Brazil" :> 2) @@ ("World" :> 3)

Perms(n) == {p \in [1..n -> 1..n] : \A i, j \in 1..n : i # j => p[i] # p[j]}

\* the order of one column's values: names as strings, years as numbers
ColLess(a, b, col) ==
    IF col \in {"country", "name"}
    THEN CountryRank[a[col]] < CountryRank[b[col]]
    ELSE a[col] < b[col]

\* row a may stand before row b when sorting by the columns by, first to
\* last, each ascending or not
RECURSIVE RowLeq(_, _, _, _)
RowLeq(a, b, by, ascending) ==
    \/ by = <<>>
    \/ /\ by # <<>>
       /\ \/ IF Head(ascending) THEN ColLess(a, b, Head(by)) ELSE ColLess(b, a, Head(by))
          \/ /\ a[Head(by)] = b[Head(by)]
             /\ RowLeq(a, b, Tail(by), Tail(ascending))

Reorderings(rows) == {[i \in 1..Len(rows) |-> rows[p[i]]] : p \in Perms(Len(rows))}

\* DataFrame.sort_values(by, ascending): the rows in the order of the
\* columns by.  The default sort kind is not stable, so rows with equal keys
\* come out in any order: the set of frames the call can return.
SortValues(rows, by, ascending) ==
    {s \in Reorderings(rows) :
        \A i \in 1..(Len(s) - 1) : RowLeq(s[i], s[i + 1], by, ascending)}

----------------------------------------------------------------------------
(* generate_interpretation, lines 65-109 *)

Abs(n) == IF n < 0 THEN -n ELSE n

\* round(n / d) to the nearest integer, ties to even, d > 0, n >= 0
RoundDiv(n, d) ==
    LET q == n \div d
        r == n % d
    IN  IF 2 * r > d \/ (2 * r = d /\ q % 2 = 1) THEN q + 1 ELSE q

\* f"{x:.2f}" of a number given in hundredths: sign, integer part, 2 decimals
Format2f(h) == [neg |-> h < 0, int |-> Abs(h) \div 100, frac |-> Abs(h) % 100]

RECURSIVE Groups(_)
Groups(n) == IF n < 1000 THEN <<n>> ELSE Append(Groups(n \div 1000), n % 1000)

\* f"${val:,.0f}": the dollar amount in groups of three digits
FormatCurrency(v) == [neg |-> v < 0, groups |-> Groups(Abs(v))]

\* line 91: ((val - prev_val) / prev_val) * 100, as the exact fraction num / den
Growth(val, prev_val) == [num |-> (val - prev_val) * 100, den |-> prev_val]

\* growth > 0
Positive(growth) == growth.num * growth.den > 0

\* f"{abs(growth):.2f}": the magnitude rounded to hundredths
FormatAbs2f(growth) == Format2f(RoundDiv(Abs(growth.num) * 100, Abs(growth.den)))

\* line 92 with ">= 0" for "> 0"
TrendZeroGrew(growth) == IF Positive(growth) \/ growth.num = 0 THEN "grew" ELSE "contracted"

\* line 92
Trend(growth) == IF Positive(growth) THEN "grew" ELSE "contracted"

\* lines 87-93 with "len(country_data) > 2" for "> 1"
TrendSentenceOffByOne(country_data, val) ==
    IF Len(country_data) > 2
    THEN LET prev == country_data[Len(country_data) - 1]
             prev_val == prev[GDP_COL]
         IN  IF ~isna(prev_val) /\ prev_val[1] # 0
             THEN LET growth == Growth(val, prev_val[1])
                  IN  <<[trend |-> Trend(growth),
                         by |-> FormatAbs2f(growth),
                         year |-> prev.year]>>
             ELSE <<>>
    ELSE <<>>

\* lines 87-93: the sentence comparing with the previous row, if any
TrendSentence(country_data, val) ==
    IF Len(country_data) > 1
    THEN LET prev == country_data[Len(country_data) - 1]
             prev_val == prev[GDP_COL]
         IN  IF ~isna(prev_val) /\ prev_val[1] # 0
             THEN LET growth == Growth(val, prev_val[1])
                  IN  <<[trend |-> Trend(growth),
                         by |-> FormatAbs2f(growth),
                         year |-> prev.year]>>
             ELSE <<>>
    ELSE <<>>

\* lines 98-107 with "val >= 5" for "val > 5"
InflationBandFiveIsHigh(val) ==
    IF val > 1000 THEN "very high inflationary pressure"
    ELSE IF val >= 500 THEN "high inflation"
    ELSE IF 100 <= val /\ val <= 300 THEN "healthy or stable"
    ELSE IF val < 0 THEN "deflation"
    ELSE "relatively low"

\* lines 98-107: the if/elif chain over the latest inflation value
InflationBand(val) ==
    IF val > 1000 THEN "very high inflationary pressure"
    ELSE IF val > 500 THEN "high inflation"
    ELSE IF 100 <= val /\ val <= 300 THEN "healthy or stable"
    ELSE IF val < 0 THEN "deflation"
    ELSE "relatively low"

NoSentence == <<>>

\* lines 69-109 on the sorted country_data of line 67
Interpret(country_data, country_name, metric_col) ==
    IF country_data = <<>>
    THEN [text |-> "No data available for interpretation.",
          country |-> NoSentence, metric |-> NoSentence, year |-> NoSentence,
          value |-> NoSentence, trend |-> NoSentence, band |-> NoSentence]
    ELSE LET latest == country_data[Len(country_data)]
             val == latest[metric_col]
         IN  IF isna(val)
             THEN [text |-> "No recent data available",
                   country |-> <<country_name>>, metric |-> <<metric_col>>,
                   year |-> NoSentence, value |-> NoSentence,
                   trend |-> NoSentence, band |-> NoSentence]
             ELSE IF metric_col = GDP_COL
             THEN [text |-> "Analysis",
                   country |-> <<country_name>>, metric |-> <<metric_col>>,
                   year |-> <<latest.year>>,
                   value |-> <<FormatCurrency(val[1])>>,
                   trend |-> TrendSentence(country_data, val[1]),
                   band |-> NoSentence]
             ELSE IF metric_col = INFL_COL
             THEN [text |-> "Analysis",
                   country |-> <<country_name>>, metric |-> <<metric_col>>,
                   year |-> <<latest.year>>,
                   value |-> <<Format2f(val[1])>>,
                   trend |-> NoSentence,
                   band |-> <<InflationBand(val[1])>>]
             \* any other column: the bare "**{country_name} Analysis:** "
             ELSE [text |-> "Analysis",
                   country |-> <<country_name>>, metric |-> NoSentence,
                   year |-> NoSentence, value |-> NoSentence,
                   trend |-> NoSentence, band |-> NoSentence]

\* line 67 with the rows sorted by year descending
CountryDataDescending(table, country_name) ==
    SortValues(SelectSeq(table, LAMBDA r : r.country = country_name), <<"year">>, <<FALSE>>)

\* line 67: df[df['country'] == country_name].sort_values('year')
CountryData(table, country_name) ==
    SortValues(SelectSeq(table, LAMBDA r : r.country = country_name), <<"year">>, <<TRUE>>)

\* the strings generate_interpretation(df, country_name, metric_col) can return
generate_interpretation(table, country_name, metric_col) ==
    {Interpret(cd, country_name, metric_col) : cd \in CountryData(table, country_name)}

----------------------------------------------------------------------------
(* st.cache_data, lines 23 and 32 *)

\* @st.cache_data that keeps nothing: every call runs the function
cache_data_no_store(cache, args, body) ==
    {[hit |-> FALSE, outcome |-> b.outcome, value |-> b.value,
      cache |-> cache, ran |-> <<b>>] : b \in body}

\* @st.cache_data that keeps no empty value
cache_data_skip_empty(cache, args, body) ==
    IF args \in DOMAIN cache
    THEN {[hit |-> TRUE, outcome |-> "returned", value |-> cache[args],
           cache |-> cache, ran |-> <<>>]}
    ELSE {[hit |-> FALSE, outcome |-> b.outcome, value |-> b.value,
           cache |-> IF b.outcome = "returned" /\ b.value # <<>>
                     THEN cache @@ (args :> b.value) ELSE cache,
           ran |-> <<b>>] : b \in body}

\* A call of a function wrapped by @st.cache_data with arguments args, where
\* body is the set of results running the function now can have.  A stored
\* value is returned without running the function; a value the function
\* returns is stored under args; an exception passes through, nothing stored.
\* No ttl and no max_entries are given, so nothing is ever dropped.
cache_data(cache, args, body) ==
    IF args \in DOMAIN cache
    THEN {[hit |-> TRUE, outcome |-> "returned", value |-> cache[args],
           cache |-> cache, ran |-> <<>>]}
    ELSE {[hit |-> FALSE, outcome |-> b.outcome, value |-> b.value,
           cache |-> IF b.outcome = "returned"
                     THEN cache @@ (args :> b.value) ELSE cache,
           ran |-> <<b>>] : b \in body}

----------------------------------------------------------------------------
(* get_country_list, lines 23-30 *)

\* what wb.get_countries() / wb.download() can answer: an exception, or rows
ApiError == [ok |-> FALSE, rows |-> <<>>]

ApiRows(rows) == [ok |-> TRUE, rows |-> rows]

\* lines 26-30 with the failure caught and an empty list returned
get_country_list_body_catch(resp) ==
    IF ~resp.ok
    THEN {[outcome |-> "returned", value |-> <<>>, attempts |-> 1]}
    ELSE LET countries == SelectSeq(resp.rows, LAMBDA c : c.region # "Aggregates")
             projected == [i \in 1..Len(countries) |->
                              [name |-> countries[i].name, iso2c |-> countries[i].iso2c]]
         IN  {[outcome |-> "returned", value |-> s, attempts |-> 1] :
                 s \in SortValues(projected, <<"name">>, <<TRUE>>)}

\* lines 26-30, run against the answer resp of wb.get_countries()
get_country_list_body(resp) ==
    IF ~resp.ok
    THEN {[outcome |-> "raised", value |-> <<>>, attempts |-> 1]}
    ELSE LET countries == SelectSeq(resp.rows, LAMBDA c : c.region # "Aggregates")
             projected == [i \in 1..Len(countries) |->
                              [name |-> countries[i].name, iso2c |-> countries[i].iso2c]]
         IN  {[outcome |-> "returned", value |-> s, attempts |-> 1] :
                 s \in SortValues(projected, <<"name">>, <<TRUE>>)}

----------------------------------------------------------------------------
(* fetch_data, lines 32-62 *)

\* a row of the frame wb.download answers with: the (country, year) index,
\* the year a string, and one column per indicator code
RawRow(c, y, g, i) ==
    [index |-> <<c, y>>] @@ (GDP_CODE :> g) @@ (INFL_CODE :> i)

Columns(row) == DOMAIN row \ {"index"}

\* line 48: df.rename(columns=INDICATORS)
Rename(row, mapping) ==
    LET new(k) == IF k \in DOMAIN mapping THEN mapping[k] ELSE k
    IN  [index |-> row.index] @@
        [c \in {new(k) : k \in Columns(row)} |->
            row[CHOOSE k \in Columns(row) : new(k) = c]]

\* line 51: df.reset_index()
ResetIndex(row) ==
    [country |-> row.index[1], year |-> row.index[2]] @@
    [c \in Columns(row) |-> row[c]]

DigitVal == ("0" :> 0) @@ ("1" :> 1) @@ ("2" :> 2) @@ ("3" :> 3) @@ ("4" :> 4) @@
            ("5" :> 5) @@ ("6" :> 6) @@ ("7" :> 7) @@ ("8" :> 8) @@ ("9" :> 9)

RECURSIVE DigitsValue(_)
DigitsValue(s) ==
    IF s = <<>> THEN 0
    ELSE 10 * DigitsValue(SubSeq(s, 1, Len(s) - 1)) + DigitVal[s[Len(s)]]

Parses(s) == s # <<>> /\ \A k \in 1..Len(s) : s[k] \in DOMAIN DigitVal

\* line 54: pd.to_numeric(df['year']) raises on a string that is no number
ToNumericFails(rows) == \E k \in 1..Len(rows) : ~Parses(rows[k].year)

ToNumeric(rows) ==
    [k \in 1..Len(rows) |-> [rows[k] EXCEPT !.year = DigitsValue(rows[k].year)]]

\* lines 60-62 with the exception raised again
CaughtAndRaised(where) ==
    [outcome |-> "raised", value |-> <<>>, error |-> TRUE,
     raised_in |-> where, attempts |-> 1]

\* lines 60-62: except Exception -> st.error(...), return pd.DataFrame()
Caught(where) ==
    [outcome |-> "returned", value |-> <<>>, error |-> TRUE,
     raised_in |-> where, attempts |-> 1]

\* lines 38-62 without the sort of line 57
fetch_data_body_unsorted(country_codes, start_year, end_year, resp) ==
    IF ~resp.ok
    THEN {Caught("download")}
    ELSE LET flat == [k \in 1..Len(resp.rows) |->
                         ResetIndex(Rename(resp.rows[k], INDICATORS))]
         IN  IF ToNumericFails(flat)
             THEN {Caught("to_numeric")}
             ELSE {[outcome |-> "returned", value |-> ToNumeric(flat), error |-> FALSE,
                    raised_in |-> "nowhere", attempts |-> 1]}

\* lines 38-62 with the try block closed after wb.download (line 45)
fetch_data_body_narrow_try(country_codes, start_year, end_year, resp) ==
    IF ~resp.ok
    THEN {Caught("download")}
    ELSE LET flat == [k \in 1..Len(resp.rows) |->
                         ResetIndex(Rename(resp.rows[k], INDICATORS))]
         IN  IF ToNumericFails(flat)
             THEN {[outcome |-> "raised", value |-> <<>>, error |-> FALSE,
                    raised_in |-> "to_numeric", attempts |-> 1]}
             ELSE {[outcome |-> "returned", value |-> s, error |-> FALSE,
                    raised_in |-> "nowhere", attempts |-> 1] :
                      s \in SortValues(ToNumeric(flat), <<"country", "year">>, <<TRUE, TRUE>>)}

\* lines 38-62, run against the answer resp of wb.download(...)
fetch_data_body(country_codes, start_year, end_year, resp) ==
    IF ~resp.ok
    THEN {Caught("download")}
    ELSE LET flat == [k \in 1..Len(resp.rows) |->
                         ResetIndex(Rename(resp.rows[k], INDICATORS))]
         IN  IF ToNumericFails(flat)
             THEN {Caught("to_numeric")}
             ELSE {[outcome |-> "returned", value |-> s, error |-> FALSE,
                    raised_in |-> "nowhere", attempts |-> 1] :
                      s \in SortValues(ToNumeric(flat), <<"country", "year">>, <<TRUE, TRUE>>)}

\* a frame is empty when it has no rows (pd.DataFrame() has none)
empty(frame) == frame = <<>>

----------------------------------------------------------------------------
(* Inputs *)

Countries == {"Albania", "Brazil"}

Years == {2000, 2001}

GDPVals == {NaN, Num(0), Num(90), Num(100), Num(110), Num(1250)}

InflVals == {NaN, Num(-100), Num(0), Num(50), Num(100), Num(200), Num(300),
             Num(400), Num(500), Num(700), Num(1000), Num(1250)}

\* every GDP cell beside one inflation cell, every inflation cell beside one GDP cell
CellPairs == (GDPVals \X {Num(200)}) \cup ({Num(100)} \X InflVals)

InputRows == {Row(c, y, v[1], v[2]) : c \in Countries, y \in Years, v \in CellPairs}

SeqsUpTo(S, n) == UNION {[1..k -> S] : k \in 0..n}

\* fetch_data returns its frame sorted by (country, year), line 57
InputTables == {t \in SeqsUpTo(InputRows, MaxRows) : t \in SortValues(t, <<"country", "year">>, <<TRUE, TRUE>>)}

\* the year strings the API may deliver; the last one is no number
YearStrings == {<<"2", "0", "0", "0">>, <<"2", "0", "0", "1">>, <<"2", "0", "x", "1">>}

FetchCells == {<<NaN, Num(200)>>, <<Num(100), Num(700)>>}

FetchRawRows ==
    {RawRow(c, y, v[1], v[2]) : c \in Countries, y \in YearStrings, v \in FetchCells}

FetchResponses == {ApiError} \cup {ApiRows(r) : r \in SeqsUpTo(FetchRawRows, MaxRows)}

FetchKeys == {<<<<"AL", "BR">>, 2000, 2001>>, <<<<"AL", "BR">>, 2001, 2001>>}

\* what wb.get_countries() may answer when it answers
CountryLists ==
    {<<[name |-> "World", iso2c |-> "1W", region |-> "Aggregates"],
       [name |-> "Brazil", iso2c |-> "BR", region |-> "Latin America & Caribbean"],
       [name |-> "Albania", iso2c |-> "AL", region |-> "Europe & Central Asia"]>>,
     <<[name |-> "Albania", iso2c |-> "AL", region |-> "Europe & Central Asia"]>>}

CountryResponses == {ApiError} \cup {ApiRows(l) : l \in CountryLists}

\* what wb.download may answer to the script
AppRawRows ==
    {RawRow("Albania", y, Num(100), Num(700)) :
        y \in {<<"2", "0", "0", "1">>, <<"2", "0", "x", "1">>}}

AppResponses == {ApiError} \cup {ApiRows(r) : r \in SeqsUpTo(AppRawRows, MaxApiRows)}

\* slider positions (line 139)
SliderRanges == {<<2000, 2001>>}

NoCall == [called |-> FALSE]

InitRest ==
    /\ pc = "idle"
    /\ countryCache = <<>>
    /\ dataCache = <<>>
    /\ countries_df = <<>>
    /\ selected = <<>>
    /\ year_range = <<2000, 2001>>
    /\ page = <<>>
    /\ listCall = NoCall
    /\ fetchCall = NoCall
    /\ interpCall = NoCall
    /\ failedKeys = {}
    /\ firstReturn = <<>>

----------------------------------------------------------------------------
(* generate_interpretation applied to one table *)

InitInterp ==
    /\ df \in InputTables
    /\ InitRest

\* one call generate_interpretation(df, country_name, metric_col)
GenerateInterpretation(country_name, metric_col) ==
    /\ pc = "idle"
    /\ pc' = "done"
    /\ \E cd \in CountryData(df, country_name) :
          interpCall' = [called |-> TRUE, country_name |-> country_name,
                         metric_col |-> metric_col, country_data |-> cd,
                         result |-> Interpret(cd, country_name, metric_col)]
    /\ UNCHANGED <<countryCache, dataCache, countries_df, selected,
                   year_range, df, page, listCall, fetchCall, failedKeys,
                   firstReturn>>

NextInterp == \E c \in Countries, m \in Metrics : GenerateInterpretation(c, m)

SpecInterp == InitInterp /\ [][NextInterp]_vars

----------------------------------------------------------------------------
(* Properties of generate_interpretation, checked under SpecInterp *)

\* the call's view of its input: the sorted rows, the latest and the previous row
Called == interpCall.called

CallRows == interpCall.country_data

Latest == CallRows[Len(CallRows)]

LatestVal == Latest[interpCall.metric_col]

Prev == CallRows[Len(CallRows) - 1]

Result == interpCall.result

Hundredths(f) == 100 * f.int + f.frac

InflationCall ==
    /\ Called
    /\ interpCall.metric_col = INFL_COL
    /\ CallRows # <<>>
    /\ ~isna(LatestVal)

GDPCall ==
    /\ Called
    /\ interpCall.metric_col = GDP_COL
    /\ CallRows # <<>>
    /\ ~isna(LatestVal)

\* the five bands of the claim, each with the values it holds
Bands(v) ==
    [b \in {"very high inflationary pressure", "high inflation", "healthy or stable",
            "deflation", "relatively low"} |->
        CASE b = "very high inflationary pressure" -> v > 1000
          [] b = "high inflation" -> 500 < v /\ v <= 1000
          [] b = "healthy or stable" -> 100 <= v /\ v <= 300
          [] b = "deflation" -> v < 0
          [] OTHER -> (0 <= v /\ v < 100) \/ (300 < v /\ v <= 500)]

\* C1: for a non-null latest inflation value v the summary ends with exactly
\* one band message: very high for v > 10, high for 5 < v <= 10, healthy or
\* stable for 1 <= v <= 3, deflation for v < 0, relatively low for
\* 0 <= v < 1 or 3 < v <= 5; v lies in exactly one of the five bands.
C1_InflationBands ==
    InflationCall =>
        LET v == LatestVal[1]
        IN  /\ Len(Result.band) = 1
            /\ Result.band[1] \in DOMAIN Bands(v)
            /\ Bands(v)[Result.band[1]]
            /\ Cardinality({b \in DOMAIN Bands(v) : Bands(v)[b]}) = 1

\* an inflation of 4.00% has been reported as relatively low
C1_Witness ==
    /\ InflationCall
    /\ LatestVal = Num(400)
    /\ Result.band = <<"relatively low">>

\* C2: for GDP with a latest value and at least two rows whose second-latest
\* value p is neither null nor zero, the summary says "grew" when
\* change = (latest - p) / p * 100 is positive and "contracted" otherwise
\* (so for a change of zero), then |change| to two decimals and the year of
\* the second-latest row; 100 -> 110 grew by 10.00%, 100 -> 90 contracted
\* by 10.00%.
C2_GDPTrend ==
    (GDPCall /\ Len(CallRows) >= 2 /\ ~isna(Prev[GDP_COL]) /\ Prev[GDP_COL] # Num(0)) =>
        LET p == Prev[GDP_COL][1]
            latest == LatestVal[1]
            t == Result.trend[1]
        IN  /\ Len(Result.trend) = 1
            /\ t.trend = IF (latest - p) * p > 0 THEN "grew" ELSE "contracted"
            /\ ~t.by.neg
            /\ t.by.frac \in 0..99
            \* t.by is |latest - p| * 100 / |p| rounded to hundredths
            /\ 2 * Abs(Hundredths(t.by) * Abs(p) - Abs(latest - p) * 10000) <= Abs(p)
            /\ t.year = Prev.year
            /\ (p = 100 /\ latest = 110) =>
                   (t.trend = "grew" /\ t.by.int = 10 /\ t.by.frac = 0)
            /\ (p = 100 /\ latest = 90) =>
                   (t.trend = "contracted" /\ t.by.int = 10 /\ t.by.frac = 0)

\* an unchanged GDP has been reported as contracted by 0.00%
C2_Witness ==
    /\ GDPCall
    /\ Len(CallRows) >= 2
    /\ Prev[GDP_COL] = LatestVal
    /\ LatestVal # Num(0)
    /\ Len(Result.trend) = 1
    /\ Result.trend[1].trend = "contracted"
    /\ Hundredths(Result.trend[1].by) = 0

\* C3: for GDP with a non-null latest value the growth/contraction sentence
\* is left out exactly when the country has one row or the second-latest GDP
\* value is null or zero, and the result is then still the prefixed summary
\* with the year and the formatted value.
C3_TrendOmitted ==
    GDPCall =>
        LET omit == \/ Len(CallRows) = 1
                    \/ isna(Prev[GDP_COL])
                    \/ Prev[GDP_COL] = Num(0)
        IN  /\ (Result.trend = <<>>) <=> omit
            /\ omit => /\ Result.text = "Analysis"
                       /\ Result.country = <<interpCall.country_name>>
                       /\ Result.year = <<Latest.year>>
                       /\ Result.value = <<FormatCurrency(LatestVal[1])>>

\* a summary without the sentence after a previous GDP of zero
C3_Witness ==
    /\ GDPCall
    /\ Len(CallRows) >= 2
    /\ Prev[GDP_COL] = Num(0)
    /\ Result.trend = <<>>
    /\ Result.text = "Analysis"

\* the rows of the table for the country of the call
RowsOf(c) == {df[k] : k \in {k \in 1..Len(df) : df[k].country = c}}

Reported(r, m) ==
    /\ Result.text = "Analysis"
    /\ Result.year = <<r.year>>
    /\ Result.value = <<IF m = GDP_COL THEN FormatCurrency(r[m][1]) ELSE Format2f(r[m][1])>>

\* C8 as stated: the value reported is that of the row with the greatest
\* year among the country's rows whose metric value is non-null, also when
\* the latest-year row is null and an earlier one is not.
C8_MostRecentNonNull ==
    Called =>
        LET m == interpCall.metric_col
            nonnull == {r \in RowsOf(interpCall.country_name) : ~isna(r[m])}
        IN  nonnull # {} =>
                \E r \in nonnull : /\ \A q \in nonnull : q.year <= r.year
                                   /\ Reported(r, m)

\* C8 amended: the value reported is that of a row with the greatest year
\* among all of the country's rows, null or not; when the metric of that row
\* is null no value is reported but "No recent data available", whatever the
\* earlier rows hold.
C8_LatestRowOnly ==
    (Called /\ RowsOf(interpCall.country_name) # {}) =>
        LET m == interpCall.metric_col
            rows == RowsOf(interpCall.country_name)
        IN  \E r \in rows :
               /\ \A q \in rows : q.year <= r.year
               /\ IF isna(r[m])
                  THEN /\ Result.text = "No recent data available"
                       /\ Result.value = <<>>
                       /\ Result.year = <<>>
                  ELSE Reported(r, m)

\* the latest row is null, an earlier row is not, and no value was reported
C8_Witness ==
    /\ Called
    /\ Len(CallRows) = 2
    /\ CallRows[1].year < CallRows[2].year
    /\ isna(LatestVal)
    /\ ~isna(CallRows[1][interpCall.metric_col])
    /\ Result.text = "No recent data available"
    /\ Result.value = <<>>

----------------------------------------------------------------------------
(* fetch_data applied to one answer of the API *)

InitFetch ==
    /\ df = <<>>
    /\ InitRest

FetchArgs(key) == <<"fetch_data", key>>

ListArgs == <<"get_country_list", <<>>>>

Remember(first, args, outcome, value) ==
    IF outcome = "returned" /\ args \notin DOMAIN first
    THEN first @@ (args :> value) ELSE first

\* one call fetch_data(key[1], key[2], key[3]) while wb.download answers resp
CallFetchData(key, resp) ==
    \E r \in cache_data(dataCache, key,
                        fetch_data_body(key[1], key[2], key[3], resp)) :
       /\ dataCache' = r.cache
       /\ df' = r.value
       /\ fetchCall' = [called |-> TRUE, key |-> key, response |-> resp,
                        hit |-> r.hit, outcome |-> r.outcome,
                        value |-> r.value, ran |-> r.ran,
                        returned_before |-> FetchArgs(key) \in DOMAIN firstReturn,
                        failed_before |-> key \in failedKeys]
       /\ firstReturn' = Remember(firstReturn, FetchArgs(key), r.outcome, r.value)
       /\ failedKeys' = IF r.ran # <<>> /\ r.ran[1].error
                        THEN failedKeys \cup {key} ELSE failedKeys

FetchData(key, resp) ==
    /\ pc = "idle"
    /\ pc' = "done"
    /\ CallFetchData(key, resp)
    /\ UNCHANGED <<countryCache, countries_df, selected, year_range, page,
                   listCall, interpCall>>

NextFetch == \E key \in FetchKeys, resp \in FetchResponses : FetchData(key, resp)

SpecFetch == InitFetch /\ [][NextFetch]_vars

----------------------------------------------------------------------------
(* The script, lines 113-213: one run per user interaction *)

Blank == [message |-> "", charts |-> <<>>, interpretations |-> <<>>, table |-> <<>>]

Message(text) == [Blank EXCEPT !.message = text]

Init ==
    /\ pc = "start"
    /\ countryCache = <<>>
    /\ dataCache = <<>>
    /\ countries_df = <<>>
    /\ selected = <<>>
    /\ year_range = <<2000, 2001>>
    /\ df = <<>>
    /\ page = Blank
    /\ listCall = NoCall
    /\ fetchCall = NoCall
    /\ interpCall = NoCall
    /\ failedKeys = {}
    /\ firstReturn = <<>>

\* line 123: countries_df = get_country_list(); an exception ends the run
ListCountries ==
    /\ pc = "start"
    /\ \E resp \in CountryResponses :
       \E r \in cache_data(countryCache, <<>>, get_country_list_body(resp)) :
          /\ countryCache' = r.cache
          /\ listCall' = [called |-> TRUE, response |-> resp, hit |-> r.hit,
                          outcome |-> r.outcome, value |-> r.value,
                          attempts |-> IF r.ran = <<>> THEN 0 ELSE r.ran[1].attempts,
                          returned_before |-> ListArgs \in DOMAIN firstReturn]
          /\ firstReturn' = Remember(firstReturn, ListArgs, r.outcome, r.value)
          /\ IF r.outcome = "raised"
             THEN /\ pc' = "stopped"
                  /\ page' = Message("exception")
                  /\ UNCHANGED countries_df
             ELSE /\ pc' = "sidebar"
                  /\ page' = Blank
                  /\ countries_df' = r.value
    /\ UNCHANGED <<dataCache, selected, year_range, df, fetchCall, interpCall,
                   failedKeys>>

Names(frame) == {frame[k].name : k \in 1..Len(frame)}

\* what the multiselect of lines 128-132 can hold: distinct options, in the
\* order they were picked
Selections(options) ==
    {sel \in SeqsUpTo(options, MaxSelected) :
        \A i, j \in 1..Len(sel) : i # j => sel[i] # sel[j]}

\* lines 124 and 135: the ISO codes of the selected names
SelectedIso(frame, names) ==
    [i \in 1..Len(names) |->
        frame[CHOOSE k \in 1..Len(frame) :
                 /\ frame[k].name = names[i]
                 /\ \A l \in (k + 1)..Len(frame) : frame[l].name # names[i]].iso2c]

\* lines 127-142 and 208-209: the widgets, then the test of selected_iso
Sidebar ==
    /\ pc = "sidebar"
    /\ \E sel \in Selections(Names(countries_df)), yr \in SliderRanges :
          /\ selected' = sel
          /\ year_range' = yr
          /\ IF SelectedIso(countries_df, sel) # <<>>
             THEN pc' = "fetch" /\ UNCHANGED page
             ELSE /\ pc' = "waiting"
                  /\ page' = Message("Please select at least one country in the sidebar.")
    /\ UNCHANGED <<countryCache, dataCache, countries_df, df, listCall,
                   fetchCall, interpCall, failedKeys, firstReturn>>

\* lines 143-144: df = fetch_data(selected_iso, year_range[0], year_range[1])
Fetch ==
    /\ pc = "fetch"
    /\ \E resp \in AppResponses :
          CallFetchData(<<SelectedIso(countries_df, selected),
                          year_range[1], year_range[2]>>, resp)
    /\ IF fetchCall'.outcome = "raised"
       THEN pc' = "stopped" /\ page' = Message("exception")
       ELSE pc' = "render" /\ UNCHANGED page
    /\ UNCHANGED <<countryCache, countries_df, selected, year_range, listCall,
                   interpCall>>

\* lines 168-169 and 189-190: one interpretation per selected country
Interpretations(table, names, metric_col) ==
    {s \in [1..Len(names) ->
              UNION {generate_interpretation(table, names[i], metric_col) :
                        i \in 1..Len(names)}] :
        \A i \in 1..Len(names) :
            s[i] \in generate_interpretation(table, names[i], metric_col)}

\* lines 146-207: the three tabs, or the "No data found" error
Render ==
    /\ pc = "render"
    /\ pc' = "rendered"
    /\ IF ~empty(df)
       THEN \E gdp \in Interpretations(df, selected, GDP_COL),
               infl \in Interpretations(df, selected, INFL_COL),
               shown \in SortValues(df, <<"country", "year">>, <<TRUE, FALSE>>) :
               page' = [message |-> "tabs",
                        charts |-> <<GDP_COL, INFL_COL>>,
                        interpretations |-> <<gdp, infl>>,
                        table |-> shown]
       ELSE page' = Message("No data found for the selected parameters.")
    /\ UNCHANGED <<countryCache, dataCache, countries_df, selected, year_range,
                   df, listCall, fetchCall, interpCall, failedKeys, firstReturn>>

\* a widget changes: Streamlit runs the script again from the top; the two
\* st.cache_data stores live on
Rerun ==
    /\ pc \in {"rendered", "stopped", "waiting"}
    /\ pc' = "start"
    /\ page' = Blank
    /\ UNCHANGED <<countryCache, dataCache, countries_df, selected, year_range,
                   df, listCall, fetchCall, interpCall, failedKeys, firstReturn>>

Next == ListCountries \/ Sidebar \/ Fetch \/ Render \/ Rerun

Spec == Init /\ [][Next]_vars

----------------------------------------------------------------------------
(* Properties of fetch_data, checked under SpecFetch *)

Fetched == fetchCall.called

Delivered == fetchCall.response.rows

\* the API's answer holds a year that is no number
BadYearDelivered ==
    /\ Fetched
    /\ fetchCall.response.ok
    /\ \E k \in 1..Len(Delivered) : ~Parses(Delivered[k].index[2])

\* C7 as stated: a year that does not parse makes fetch_data raise.
C7_BadYearPropagates == BadYearDelivered => fetchCall.outcome = "raised"

\* C7 amended: a year that does not parse is not coerced to null; the
\* ValueError of pd.to_numeric is raised inside the try block, so fetch_data
\* catches it, reports the error and returns the empty table.
C7_BadYearCaught ==
    BadYearDelivered =>
        /\ fetchCall.outcome = "returned"
        /\ fetchCall.value = <<>>
        /\ Len(fetchCall.ran) = 1
        /\ fetchCall.ran[1].error
        /\ fetchCall.ran[1].raised_in = "to_numeric"

\* two rows were delivered, one year is no number, the empty table came back
C7_Witness ==
    /\ BadYearDelivered
    /\ Len(Delivered) = 2
    /\ \E k \in 1..2 : Parses(Delivered[k].index[2])
    /\ fetchCall.outcome = "returned"
    /\ empty(fetchCall.value)

InOrder(a, b) ==
    \/ CountryRank[a.country] < CountryRank[b.country]
    \/ a.country = b.country /\ a.year < b.year

SameKey(a, b) == a.country = b.country /\ a.year = b.year

NonEmptyReturn ==
    /\ Fetched
    /\ fetchCall.key[2] <= fetchCall.key[3]
    /\ fetchCall.outcome = "returned"
    /\ ~empty(fetchCall.value)

\* C9 as stated: a non-empty returned table is in strictly ascending
\* (country, year) order and every year lies in [start, end], whatever rows
\* the API delivered.
C9_StrictlySortedInRange ==
    NonEmptyReturn =>
        LET v == fetchCall.value
        IN  /\ \A k \in 1..(Len(v) - 1) : InOrder(v[k], v[k + 1])
            /\ \A k \in 1..Len(v) :
                   fetchCall.key[2] <= v[k].year /\ v[k].year <= fetchCall.key[3]

\* the delivered row as a row of the cleaned frame
Cleaned(raw) ==
    Row(raw.index[1], DigitsValue(raw.index[2]), raw[GDP_CODE], raw[INFL_CODE])

\* C9 amended: a non-empty returned table holds exactly the rows the API
\* delivered, the years as numbers, in ascending (country, year) order; rows
\* with the same (country, year) stay side by side and years outside
\* [start, end] stay in the table, so the order is strict and the years are
\* in range exactly when the delivered rows are so.
C9_SortedAsDelivered ==
    NonEmptyReturn =>
        LET v == fetchCall.value
        IN  /\ \A k \in 1..(Len(v) - 1) : InOrder(v[k], v[k + 1]) \/ SameKey(v[k], v[k + 1])
            /\ Len(v) = Len(Delivered)
            /\ \E p \in Perms(Len(v)) : \A k \in 1..Len(v) : v[k] = Cleaned(Delivered[p[k]])

\* a table came back with two rows of the same (country, year), a year
\* before start_year
C9_Witness ==
    /\ NonEmptyReturn
    /\ Len(fetchCall.value) = 2
    /\ SameKey(fetchCall.value[1], fetchCall.value[2])
    /\ fetchCall.value[1].year < fetchCall.key[2]

----------------------------------------------------------------------------
(* Properties of the cached fetchers inside the script, checked under Spec *)

\* the last fetch_data call ran its body and the API call or the cleaning of
\* its answer failed
FetchFailed ==
    /\ fetchCall.called
    /\ ~fetchCall.hit
    /\ \/ ~fetchCall.response.ok
       \/ \E k \in 1..Len(fetchCall.response.rows) :
             ~Parses(fetchCall.response.rows[k].index[2])

NoDataPage ==
    /\ page.message = "No data found for the selected parameters."
    /\ page.charts = <<>>
    /\ page.interpretations = <<>>
    /\ page.table = <<>>

\* C4: when the API call inside fetch_data fails, fetch_data does not raise:
\* it reports the error and returns the empty table, and the run then shows
\* "No data found" and neither charts nor interpretations.
C4_FailureDegradesToNoData ==
    FetchFailed =>
        /\ fetchCall.outcome = "returned"
        /\ empty(fetchCall.value)
        /\ fetchCall.ran[1].error
        \* in the run that made the call
        /\ pc = "render" => empty(df)
        /\ pc = "rendered" => NoDataPage

\* wb.download raised and the run ended on the "No data found" page
C4_Witness ==
    /\ FetchFailed
    /\ ~fetchCall.response.ok
    /\ pc = "rendered"
    /\ NoDataPage

\* a stored value stays where it is and as it is
Kept(cache, cacheNext) ==
    \A args \in DOMAIN cache : args \in DOMAIN cacheNext /\ cacheNext[args] = cache[args]

\* C5: once a call of a cached fetcher has returned for a key, every later
\* call with that key returns an equal value and makes no request to the API
\* (the function is not run); no entry is ever dropped or changed.
C5_CacheHitsRepeat ==
    /\ [](fetchCall.called /\ fetchCall.returned_before =>
             /\ fetchCall.outcome = "returned"
             /\ fetchCall.value = firstReturn[FetchArgs(fetchCall.key)]
             /\ fetchCall.ran = <<>>)
    /\ [](listCall.called /\ listCall.returned_before =>
             /\ listCall.outcome = "returned"
             /\ listCall.value = firstReturn[ListArgs]
             /\ listCall.attempts = 0)
    /\ [][Kept(dataCache, dataCache') /\ Kept(countryCache, countryCache')]_vars

\* a later call got the table of the first call although the API now fails,
\* and the country list was answered from the store as well
C5_Witness ==
    /\ fetchCall.called
    /\ fetchCall.returned_before
    /\ ~fetchCall.response.ok
    /\ ~empty(fetchCall.value)
    /\ listCall.returned_before
    /\ listCall.response # ApiError
    /\ listCall.value # [i \in 1..Len(listCall.response.rows) |-> listCall.response.rows[i]]

\* the last get_country_list call went to the API and found it unreachable
ListFailed ==
    /\ listCall.called
    /\ ~listCall.hit
    /\ ~listCall.response.ok

\* C6: a get_country_list call that finds the API unreachable makes one
\* attempt, raises instead of returning a list (an empty list included), and
\* the exception ends the run of the script.
C6_ListFailurePropagates ==
    ListFailed =>
        /\ listCall.outcome = "raised"
        /\ listCall.attempts = 1
        /\ ListArgs \notin DOMAIN firstReturn
        /\ pc \in {"start", "stopped"}
        /\ pc = "stopped" => page = Message("exception")

\* the run was stopped by the exception of get_country_list
C6_Witness ==
    /\ ListFailed
    /\ listCall.outcome = "raised"
    /\ pc = "stopped"
    /\ page = Message("exception")

\* C10: a failed fetch_data call is stored like a success: after a call for
\* a key failed and returned the empty table, every later call with that key
\* returns the empty table without running the function, whatever the API
\* would answer now; a failed get_country_list call stores nothing and the
\* next call goes to the API again.
C10_FailureIsCached ==
    /\ [](fetchCall.called /\ fetchCall.failed_before =>
             /\ fetchCall.outcome = "returned"
             /\ empty(fetchCall.value)
             /\ fetchCall.hit
             /\ fetchCall.ran = <<>>)
    /\ [](listCall.called /\ listCall.outcome = "raised" => <<>> \notin DOMAIN countryCache)
    /\ [][(pc = "start" /\ pc' # "start" /\ listCall.called /\ listCall.outcome = "raised")
             => (~listCall'.hit /\ listCall'.attempts = 1)]_vars

\* the API delivered a good row for a key whose first call had failed, and
\* the empty table was returned; get_country_list failed before
C10_Witness ==
    /\ fetchCall.called
    /\ fetchCall.failed_before
    /\ fetchCall.response.ok
    /\ Len(fetchCall.response.rows) = 1
    /\ Parses(fetchCall.response.rows[1].index[2])
    /\ empty(fetchCall.value)
    /\ pc = "rendered"
    /\ NoDataPage

====
